---- MODULE Spec2Model ----
(***************************************************************************)
(* Command handlers of python-openstackclient: network v2 (network.py)    *)
(* and volume v2 backup (backup.py).  One behaviour is one command         *)
(* invocation: argument parsing, then the handler's take_action, split at  *)
(* every call it makes on an external collaborator (resolver or client).   *)
(* The outcome of each external call is an input of the step that makes    *)
(* it; the calls made so far are recorded, in order, in `calls`.           *)
(***************************************************************************)
EXTENDS Integers, Sequences, FiniteSets, TLC

\* ------------------------------------------------------------------ bounds
\* Longest list of identifiers given to a delete command (nargs="+").
MaxItems == 3
\* Longest list of networks the service returns to `network list`.
MaxRecords == 2
\* Longest list of volumes the service holds for `backup list`.
MaxVolumes == 2
\* Longest list of backups the service returns to `backup list`.
MaxBackups == 2

\* ------------------------------------------------------- Python values
\* Python's None, True and False as they appear in parsed arguments and
\* request bodies; every other value is a string.
PyNone == "None"
PyTrue == "True"
PyFalse == "False"

\* Truth value of a parsed argument in `if parsed_args.x:`.
Truthy(v) == v \notin {PyNone, PyFalse, ""}

\* The tri-state of a store_true/store_false pair with default=None.
TriState == {PyNone, PyTrue, PyFalse}

\* Name-or-ID strings a user may type.
Names == {"b1", "b2", "b3"}

\* The canonical ID the resolver returns for a name it resolves.
IdOf(n) == "id-" \o n

\* Lists of one to MaxItems identifiers (nargs="+").
ItemLists == UNION {[1..n -> Names] : n \in 1..MaxItems}

NoError == [type |-> "", msg |-> ""]

\* One recorded call on a collaborator: which method, on which collection,
\* its argument, the exception it raised ("" when it returned) and the
\* position in the argument list of the item it was made for (0: none).
Call(call, coll, arg, exc, item) ==
    [call |-> call, coll |-> coll, arg |-> arg, exc |-> exc, item |-> item]

\* Exceptions a resolver lookup, and a client call, may end with ("": none).
FindOutcomes == {"", "NotFound"}
CallOutcomes == {"", "TransportError"}

VARIABLES
    cmd,            \* the command class dispatched to
    parsed_args,    \* its parsed arguments
    pc,             \* position in take_action
    calls,          \* calls made on resolver and client, in order
    status,         \* "idle", "running", "success", "failure"
    error,          \* the exception take_action ended with
    output,         \* what take_action returned
    i,              \* position of the loop over the identifiers
    result,         \* DeleteBackup's failure counter
    ids,            \* identifiers resolved so far
    volume_cache,   \* ListBackup's volume cache
    LOG             \* messages passed to LOG.error

vars == <<cmd, parsed_args, pc, calls, status, error, output, i, result, ids,
          volume_cache, LOG>>

Init ==
    /\ cmd = "none"
    /\ parsed_args = <<>>
    /\ pc = "PARSE"
    /\ calls = <<>>
    /\ status = "idle"
    /\ error = NoError
    /\ output = <<>>
    /\ i = 0
    /\ result = 0
    /\ ids = <<>>
    /\ volume_cache = <<>>
    /\ LOG = <<>>

\* Dispatch to command `c` with arguments `a`; take_action starts at `at`.
Dispatch(c, a, at) ==
    /\ cmd' = c
    /\ parsed_args' = a
    /\ pc' = at
    /\ status' = "running"
    /\ i' = 1
    /\ UNCHANGED <<calls, error, output, result, ids, volume_cache, LOG>>

\* take_action raises `type` with message `msg`.
Raise(type, msg) ==
    /\ pc' = "DONE"
    /\ status' = "failure"
    /\ error' = [type |-> type, msg |-> msg]

\* take_action returns `out`.
Return(out) ==
    /\ pc' = "DONE"
    /\ status' = "success"
    /\ output' = out
    /\ UNCHANGED error

\* ------------------------------------------------------- DeleteBackup
DeleteBackup_parse ==
    /\ pc = "PARSE"
    /\ \E backups \in ItemLists, force \in BOOLEAN :
           Dispatch("DeleteBackup", [backups |-> backups, force |-> force],
                    "find")

\* The aggregate message of DeleteBackup.
DeleteBackup_msg(res, total) ==
    ToString(res) \o " of " \o ToString(total) \o " backups failed to delete."

\* End of one iteration with the counter at `res`: the next identifier, or
\* after the last one the aggregate error when any item failed.
DeleteBackup_next(res) ==
    /\ result' = res
    /\ i' = i + 1
    /\ IF i + 1 <= Len(parsed_args.backups)
         THEN pc' = "find" /\ UNCHANGED <<status, error>>
         ELSE IF res > 0
                THEN Raise("CommandError",
                           DeleteBackup_msg(res, Len(parsed_args.backups)))
                ELSE pc' = "DONE" /\ status' = "success" /\ UNCHANGED error

\* The except clause: count the failure and log it.
DeleteBackup_except(e) ==
    /\ LOG' = Append(LOG, [backup |-> parsed_args.backups[i], e |-> e])
    /\ DeleteBackup_next(result + 1)

\* Faulty variant of DeleteBackup_find: when the lookup fails it falls back
\* to the identifier as typed and goes on to the delete call.
DeleteBackup_find_fallback ==
    /\ cmd = "DeleteBackup" /\ pc = "find"
    /\ \E exc \in FindOutcomes :
         /\ calls' = Append(calls, Call("find_resource", "backups",
                                        parsed_args.backups[i], exc, i))
         /\ ids' = Append(ids, IF exc = "" THEN IdOf(parsed_args.backups[i])
                               ELSE parsed_args.backups[i])
         /\ pc' = "delete"
         /\ UNCHANGED <<status, error, i, result, LOG>>
    /\ UNCHANGED <<cmd, parsed_args, output, volume_cache>>

DeleteBackup_find ==
    /\ cmd = "DeleteBackup" /\ pc = "find"
    /\ \E exc \in FindOutcomes :
         /\ calls' = Append(calls, Call("find_resource", "backups",
                                        parsed_args.backups[i], exc, i))
         /\ IF exc = ""
              THEN /\ ids' = Append(ids, IdOf(parsed_args.backups[i]))
                   /\ pc' = "delete"
                   /\ UNCHANGED <<status, error, i, result, LOG>>
              ELSE /\ DeleteBackup_except(exc)
                   /\ UNCHANGED ids
    /\ UNCHANGED <<cmd, parsed_args, output, volume_cache>>

DeleteBackup_delete ==
    /\ cmd = "DeleteBackup" /\ pc = "delete"
    /\ \E exc \in CallOutcomes :
         /\ calls' = Append(calls, Call("delete", "backups",
                                        ids[Len(ids)], exc, i))
         /\ IF exc = ""
              THEN DeleteBackup_next(result) /\ UNCHANGED LOG
              ELSE DeleteBackup_except(exc)
    /\ UNCHANGED <<cmd, parsed_args, output, ids, volume_cache>>

\* ------------------------------------------------------- DeleteNetwork
DeleteNetwork_parse ==
    /\ pc = "PARSE"
    /\ \E networks \in ItemLists :
           Dispatch("DeleteNetwork", [networks |-> networks], "find")

\* End of one iteration: the next identifier, or return after the last.
DeleteNetwork_next ==
    /\ i' = i + 1
    /\ IF i + 1 <= Len(parsed_args.networks)
         THEN pc' = "find" /\ UNCHANGED <<status, error>>
         ELSE pc' = "DONE" /\ status' = "success" /\ UNCHANGED error

DeleteNetwork_find ==
    /\ cmd = "DeleteNetwork" /\ pc = "find"
    /\ \E exc \in FindOutcomes :
         /\ calls' = Append(calls, Call("find", "networks",
                                        parsed_args.networks[i], exc, i))
         /\ IF exc = ""
              THEN /\ ids' = Append(ids, IdOf(parsed_args.networks[i]))
                   /\ pc' = "delete"
                   /\ UNCHANGED <<status, error>>
              ELSE /\ Raise(exc, parsed_args.networks[i])
                   /\ UNCHANGED ids
    /\ UNCHANGED <<cmd, parsed_args, output, i, result, volume_cache, LOG>>

DeleteNetwork_delete ==
    /\ cmd = "DeleteNetwork" /\ pc = "delete"
    /\ \E exc \in CallOutcomes :
         /\ calls' = Append(calls, Call("delete_network", "networks",
                                        ids[Len(ids)], exc, i))
         /\ IF exc = ""
              THEN DeleteNetwork_next
              ELSE Raise(exc, ids[Len(ids)]) /\ UNCHANGED i
    /\ UNCHANGED <<cmd, parsed_args, output, result, ids, volume_cache, LOG>>

\* ------------------------------------------------------ shared helpers
\* Every key a record may carry, in the order sorted() puts them.
KeyOrder == <<"", "id", "links", "name", "subnets", "volume_id">>

\* Subnet IDs, in the order sorted() puts them.
SubnetOrder == <<"s1", "s2">>

\* seq repeated: `n` copies of x.
RECURSIVE Copies(_, _)
Copies(x, n) == IF n = 0 THEN <<>> ELSE <<x>> \o Copies(x, n - 1)

\* How often x occurs in seq.
Count(x, seq) == Cardinality({j \in 1..Len(seq) : seq[j] = x})

\* sorted(seq) for a list over the elements of `order`.
RECURSIVE Sorted(_, _)
Sorted(seq, order) ==
    IF order = <<>> THEN <<>>
    ELSE Copies(Head(order), Count(Head(order), seq)) \o Sorted(seq, Tail(order))

\* sep.join(seq)
RECURSIVE Join(_, _)
Join(sep, seq) ==
    IF seq = <<>> THEN ""
    ELSE IF Len(seq) = 1 THEN seq[1]
    ELSE seq[1] \o sep \o Join(sep, Tail(seq))

\* utils.format_list: the sorted items joined by ", ".
format_list(data) == Join(", ", Sorted(data, SubnetOrder))

\* dict.pop(key, None) as done on a record before display.
Pop(data, key) == [k \in DOMAIN data \ {key} |-> data[k]]

\* zip(*sorted(six.iteritems(data))): the keys in sorted order and their
\* values in the same order; of an empty dict, the empty list.
ZipSorted(data) ==
    LET ks == SelectSeq(KeyOrder, LAMBDA k : k \in DOMAIN data)
    IN  IF ks = <<>> THEN <<>>
        ELSE <<ks, [j \in 1..Len(ks) |-> data[ks[j]]]>>

\* field.lower().replace(' ', '_') of a column name.
FieldName(field) ==
    CASE field = "ID" -> "id"
      [] field = "Name" -> "name"
      [] field = "Description" -> "description"
      [] field = "Status" -> "status"
      [] field = "Size" -> "size"
      [] field = "Availability Zone" -> "availability_zone"
      [] field = "Volume ID" -> "volume_id"
      [] field = "Container" -> "container"
      [] OTHER -> field

\* ------------------------------------------------------ network records
NetKeys == {"id", "links", "name", "subnets"}

\* The value a network record holds under a key.
NetValue(k) ==
    CASE k = "id" -> "net-id"
      [] k = "links" -> "net-links"
      [] k = "name" -> "net-name"
      [] k = "subnets" -> <<"s2", "s1">>

\* Records the network service may return: any set of the keys.
NetRecords == {[k \in K |-> NetValue(k)] : K \in SUBSET NetKeys}

\* Lists of records the network service may return to a list call.
NetLists == UNION {[1..n -> NetRecords] : n \in 0..MaxRecords}

\* filters(): the subnets list flattened for display, all else as it is.
filters(data) ==
    IF "subnets" \in DOMAIN data
      THEN [data EXCEPT !["subnets"] = format_list(data["subnets"])]
      ELSE data

\* ------------------------------------------------------- CreateNetwork
CreateNetwork_parse ==
    /\ pc = "PARSE"
    /\ \E name \in Names, admin_state \in {PyTrue, PyFalse},
          shared \in TriState :
           Dispatch("CreateNetwork",
                    [name |-> name, admin_state |-> admin_state,
                     shared |-> shared], "create")

\* get_body: name and admin_state_up always, shared only when it is not
\* None (str() of the name, a string, is that string).
CreateNetwork_get_body(args) ==
    LET keys == {"name", "admin_state_up"}
                \cup (IF args.shared # PyNone THEN {"shared"} ELSE {})
        body == [k \in keys |->
                   CASE k = "name" -> args.name
                     [] k = "admin_state_up" -> args.admin_state
                     [] k = "shared" -> args.shared]
    IN  [network |-> body]

CreateNetwork_take_action ==
    /\ cmd = "CreateNetwork" /\ pc = "create"
    /\ \E exc \in CallOutcomes, data \in NetRecords :
         /\ exc # "" => data = <<>>
         /\ calls' = Append(calls, Call("create_network", "networks",
                                CreateNetwork_get_body(parsed_args), exc, 0))
         /\ IF exc # ""
              THEN Raise(exc, "create_network") /\ UNCHANGED output
              ELSE Return(ZipSorted(IF DOMAIN data # {}
                                      THEN filters(data)
                                      ELSE [k \in {""} |-> ""]))
    /\ UNCHANGED <<cmd, parsed_args, i, result, ids, volume_cache, LOG>>

\* --------------------------------------------------------- ListNetwork
ListNetwork_parse ==
    /\ pc = "PARSE"
    /\ \E external \in {PyTrue, PyFalse}, dhcp \in {PyNone, "", "agent1"},
          long \in {PyTrue, PyFalse}, columns \in {<<>>, <<"name", "id">>} :
           Dispatch("ListNetwork",
                    [external |-> external, dhcp |-> dhcp, long |-> long,
                     columns |-> columns], "list")

\* The list method called and the filter passed to it.
ListNetwork_method(args) ==
    IF Truthy(args.dhcp) THEN "list_networks_on_dhcp_agent" ELSE "list_networks"

ListNetwork_report_filter(args) ==
    IF Truthy(args.dhcp) THEN [k \in {"dhcp_agent"} |-> args.dhcp]
    ELSE IF Truthy(args.external) THEN [k \in {"router:external"} |-> PyTrue]
    ELSE <<>>

\* The columns shown for the records `data`.
ListNetwork_columns(args, data) ==
    LET columns == IF Len(data) > 0
                     THEN SelectSeq(KeyOrder, LAMBDA k : k \in DOMAIN data[1])
                     ELSE <<>>
        list_columns == IF args.columns # <<>> THEN args.columns
                        ELSE <<"id", "name", "subnets">>
    IN  IF ~Truthy(args.long) /\ ~Truthy(args.dhcp)
          THEN SelectSeq(list_columns,
                         LAMBDA x : \E j \in 1..Len(columns) : columns[j] = x)
          ELSE columns

\* utils.get_dict_properties with formatters={'subnets': format_list}: one
\* value per column, '' for a key the record lacks (format_list('') is '').
get_dict_properties(item, columns) ==
    [j \in 1..Len(columns) |->
       LET field_name == FieldName(columns[j])
       IN  IF field_name \notin DOMAIN item THEN ""
           ELSE IF columns[j] = "subnets" THEN format_list(item[field_name])
           ELSE item[field_name]]

ListNetwork_take_action ==
    /\ cmd = "ListNetwork" /\ pc = "list"
    /\ \E exc \in CallOutcomes, data \in NetLists :
         /\ exc # "" => data = <<>>
         /\ calls' = Append(calls, Call(ListNetwork_method(parsed_args),
                                "networks",
                                ListNetwork_report_filter(parsed_args), exc, 0))
         /\ IF exc # ""
              THEN Raise(exc, "list_networks") /\ UNCHANGED output
              ELSE LET columns == ListNetwork_columns(parsed_args, data)
                   IN  Return(<<columns,
                                [r \in 1..Len(data) |->
                                   get_dict_properties(data[r], columns)]>>)
    /\ UNCHANGED <<cmd, parsed_args, i, result, ids, volume_cache, LOG>>

\* ---------------------------------------------------------- SetNetwork
SetNetwork_parse ==
    /\ pc = "PARSE"
    /\ \E identifier \in Names, name \in {PyNone, "", "net-x"},
          admin_state \in TriState, shared \in TriState :
           Dispatch("SetNetwork",
                    [identifier |-> identifier, name |-> name,
                     admin_state |-> admin_state, shared |-> shared], "find")

\* Faulty variant of SetNetwork_body: tests the arguments for truth instead
\* of `is not None`, so False and '' are dropped like None.
SetNetwork_body_truthy(args) ==
    LET keys == (IF Truthy(args.name) THEN {"name"} ELSE {})
                \cup (IF Truthy(args.admin_state)
                        THEN {"admin_state_up"} ELSE {})
                \cup (IF Truthy(args.shared) THEN {"shared"} ELSE {})
    IN  [k \in keys |->
           CASE k = "name" -> args.name
             [] k = "admin_state_up" -> args.admin_state
             [] k = "shared" -> args.shared]

\* The partial body built from the arguments that are not None.
SetNetwork_body(args) ==
    LET keys == (IF args.name # PyNone THEN {"name"} ELSE {})
                \cup (IF args.admin_state # PyNone
                        THEN {"admin_state_up"} ELSE {})
                \cup (IF args.shared # PyNone THEN {"shared"} ELSE {})
    IN  [k \in keys |->
           CASE k = "name" -> args.name
             [] k = "admin_state_up" -> args.admin_state
             [] k = "shared" -> args.shared]

SetNetwork_find ==
    /\ cmd = "SetNetwork" /\ pc = "find"
    /\ \E exc \in FindOutcomes :
         /\ calls' = Append(calls, Call("find", "networks",
                                        parsed_args.identifier, exc, 0))
         /\ IF exc # ""
              THEN Raise(exc, parsed_args.identifier) /\ UNCHANGED ids
              ELSE /\ ids' = Append(ids, IdOf(parsed_args.identifier))
                   /\ IF DOMAIN SetNetwork_body(parsed_args) = {}
                        THEN Raise("CommandError", "Nothing specified to be set")
                        ELSE pc' = "update" /\ UNCHANGED <<status, error>>
    /\ UNCHANGED <<cmd, parsed_args, output, i, result, volume_cache, LOG>>

SetNetwork_update ==
    /\ cmd = "SetNetwork" /\ pc = "update"
    /\ \E exc \in CallOutcomes :
         /\ calls' = Append(calls, Call("update_network", "networks",
                                [id |-> ids[1],
                                 body |-> [network |->
                                             SetNetwork_body(parsed_args)]],
                                exc, 0))
         /\ IF exc # ""
              THEN Raise(exc, "update_network")
              ELSE pc' = "DONE" /\ status' = "success" /\ UNCHANGED error
    /\ UNCHANGED <<cmd, parsed_args, output, i, result, ids, volume_cache, LOG>>

\* --------------------------------------------------------- ShowNetwork
ShowNetwork_parse ==
    /\ pc = "PARSE"
    /\ \E identifier \in Names :
           Dispatch("ShowNetwork", [identifier |-> identifier], "find")

ShowNetwork_find ==
    /\ cmd = "ShowNetwork" /\ pc = "find"
    /\ \E exc \in FindOutcomes :
         /\ calls' = Append(calls, Call("find", "networks",
                                        parsed_args.identifier, exc, 0))
         /\ IF exc # ""
              THEN Raise(exc, parsed_args.identifier) /\ UNCHANGED ids
              ELSE /\ ids' = Append(ids, IdOf(parsed_args.identifier))
                   /\ pc' = "show"
                   /\ UNCHANGED <<status, error>>
    /\ UNCHANGED <<cmd, parsed_args, output, i, result, volume_cache, LOG>>

ShowNetwork_show ==
    /\ cmd = "ShowNetwork" /\ pc = "show"
    /\ \E exc \in CallOutcomes, data \in NetRecords :
         /\ exc # "" => data = <<>>
         /\ calls' = Append(calls, Call("show_network", "networks",
                                        ids[1], exc, 0))
         /\ IF exc # ""
              THEN Raise(exc, "show_network") /\ UNCHANGED output
              ELSE Return(ZipSorted(filters(data)))
    /\ UNCHANGED <<cmd, parsed_args, i, result, ids, volume_cache, LOG>>

\* ------------------------------------------------------- backup records
InfoKeys == {"id", "links", "name", "volume_id"}

\* The value a backup's _info holds under a key.
InfoValue(k) ==
    CASE k = "id" -> "bk-id"
      [] k = "links" -> "bk-links"
      [] k = "name" -> "bk-name"
      [] k = "volume_id" -> "v1"

\* The _info of a backup the volume service may return: any set of the keys.
BackupInfos == {[k \in K |-> InfoValue(k)] : K \in SUBSET InfoKeys}

\* -------------------------------------------------------- CreateBackup
CreateBackup_parse ==
    /\ pc = "PARSE"
    /\ \E volume \in Names, name \in {PyNone, "bk-x"},
          description \in {PyNone, "desc"}, container \in {PyNone, "cont"},
          snapshot \in {PyNone, "", "b2"}, force \in {PyTrue, PyFalse},
          incremental \in {PyTrue, PyFalse} :
           Dispatch("CreateBackup",
                    [volume |-> volume, name |-> name,
                     description |-> description, container |-> container,
                     snapshot |-> snapshot, force |-> force,
                     incremental |-> incremental], "find_volume")

\* The arguments of volume_client.backups.create.
CreateBackup_request(args, volume_id, snapshot_id) ==
    [volume_id |-> volume_id,
     kwargs |-> [container |-> args.container,
                 name |-> args.name,
                 description |-> args.description,
                 force |-> args.force,
                 incremental |-> args.incremental,
                 snapshot_id |-> snapshot_id]]

CreateBackup_find_volume ==
    /\ cmd = "CreateBackup" /\ pc = "find_volume"
    /\ \E exc \in FindOutcomes :
         /\ calls' = Append(calls, Call("find_resource", "volumes",
                                        parsed_args.volume, exc, 0))
         /\ IF exc # ""
              THEN Raise(exc, parsed_args.volume) /\ UNCHANGED ids
              ELSE /\ ids' = Append(ids, IdOf(parsed_args.volume))
                   /\ pc' = IF Truthy(parsed_args.snapshot)
                              THEN "find_snapshot" ELSE "create"
                   /\ UNCHANGED <<status, error>>
    /\ UNCHANGED <<cmd, parsed_args, output, i, result, volume_cache, LOG>>

\* Faulty variant of CreateBackup_find_snapshot: a snapshot that does not
\* resolve is ignored and the backup is created without it.
CreateBackup_find_snapshot_swallow ==
    /\ cmd = "CreateBackup" /\ pc = "find_snapshot"
    /\ \E exc \in FindOutcomes :
         /\ calls' = Append(calls, Call("find_resource", "volume_snapshots",
                                        parsed_args.snapshot, exc, 0))
         /\ ids' = IF exc # "" THEN ids
                   ELSE Append(ids, IdOf(parsed_args.snapshot))
         /\ pc' = "create"
         /\ UNCHANGED <<status, error>>
    /\ UNCHANGED <<cmd, parsed_args, output, i, result, volume_cache, LOG>>

CreateBackup_find_snapshot ==
    /\ cmd = "CreateBackup" /\ pc = "find_snapshot"
    /\ \E exc \in FindOutcomes :
         /\ calls' = Append(calls, Call("find_resource", "volume_snapshots",
                                        parsed_args.snapshot, exc, 0))
         /\ IF exc # ""
              THEN Raise(exc, parsed_args.snapshot) /\ UNCHANGED ids
              ELSE /\ ids' = Append(ids, IdOf(parsed_args.snapshot))
                   /\ pc' = "create"
                   /\ UNCHANGED <<status, error>>
    /\ UNCHANGED <<cmd, parsed_args, output, i, result, volume_cache, LOG>>

CreateBackup_create ==
    /\ cmd = "CreateBackup" /\ pc = "create"
    /\ \E exc \in CallOutcomes, info \in BackupInfos :
         /\ exc # "" => info = <<>>
         /\ calls' = Append(calls, Call("create", "backups",
                                CreateBackup_request(parsed_args, ids[1],
                                    IF Len(ids) > 1 THEN ids[2] ELSE PyNone),
                                exc, 0))
         /\ IF exc # ""
              THEN Raise(exc, "create") /\ UNCHANGED output
              ELSE Return(ZipSorted(Pop(info, "links")))
    /\ UNCHANGED <<cmd, parsed_args, i, result, ids, volume_cache, LOG>>

\* ---------------------------------------------------------- ShowBackup
ShowBackup_parse ==
    /\ pc = "PARSE"
    /\ \E backup \in Names :
           Dispatch("ShowBackup", [backup |-> backup], "find")

ShowBackup_take_action ==
    /\ cmd = "ShowBackup" /\ pc = "find"
    /\ \E exc \in FindOutcomes, info \in BackupInfos :
         /\ exc # "" => info = <<>>
         /\ calls' = Append(calls, Call("find_resource", "backups",
                                        parsed_args.backup, exc, 0))
         /\ IF exc # ""
              THEN Raise(exc, parsed_args.backup) /\ UNCHANGED output
              ELSE Return(ZipSorted(Pop(info, "links")))
    /\ UNCHANGED <<cmd, parsed_args, i, result, ids, volume_cache, LOG>>

\* ------------------------------------------------------- RestoreBackup
RestoreBackup_parse ==
    /\ pc = "PARSE"
    /\ \E backup \in Names, volume \in Names :
           Dispatch("RestoreBackup", [backup |-> backup, volume |-> volume],
                    "find_backup")

RestoreBackup_find_backup ==
    /\ cmd = "RestoreBackup" /\ pc = "find_backup"
    /\ \E exc \in FindOutcomes :
         /\ calls' = Append(calls, Call("find_resource", "backups",
                                        parsed_args.backup, exc, 0))
         /\ IF exc # ""
              THEN Raise(exc, parsed_args.backup) /\ UNCHANGED ids
              ELSE /\ ids' = Append(ids, IdOf(parsed_args.backup))
                   /\ pc' = "find_volume"
                   /\ UNCHANGED <<status, error>>
    /\ UNCHANGED <<cmd, parsed_args, output, i, result, volume_cache, LOG>>

RestoreBackup_find_volume ==
    /\ cmd = "RestoreBackup" /\ pc = "find_volume"
    /\ \E exc \in FindOutcomes :
         /\ calls' = Append(calls, Call("find_resource", "volumes",
                                        parsed_args.volume, exc, 0))
         /\ IF exc # ""
              THEN Raise(exc, parsed_args.volume) /\ UNCHANGED ids
              ELSE /\ ids' = Append(ids, IdOf(parsed_args.volume))
                   /\ pc' = "restore"
                   /\ UNCHANGED <<status, error>>
    /\ UNCHANGED <<cmd, parsed_args, output, i, result, volume_cache, LOG>>

RestoreBackup_restore ==
    /\ cmd = "RestoreBackup" /\ pc = "restore"
    /\ \E exc \in CallOutcomes :
         /\ calls' = Append(calls, Call("restore", "restores",
                                <<ids[1], ids[2]>>, exc, 0))
         /\ IF exc # ""
              THEN Raise(exc, "restore") /\ UNCHANGED output
              ELSE Return([backup_id |-> ids[1], volume_id |-> ids[2]])
    /\ UNCHANGED <<cmd, parsed_args, i, result, ids, volume_cache, LOG>>

\* ---------------------------------------------------------- ListBackup
VolIds == {"v1", "v2", "v3"}

\* The volume the service holds under an ID.
Volume(v) == [id |-> v, name |-> "name-of-" \o v]

\* Volume listings of the service: each volume at most once.
VolumeLists ==
    {vs \in UNION {[1..n -> {Volume(v) : v \in VolIds}] : n \in 0..MaxVolumes} :
       \A a, b \in 1..Len(vs) : vs[a].id = vs[b].id => a = b}

\* The attributes of a backup object that ListBackup may show.
BackupAttrs == {"id", "name", "description", "status", "size",
                "availability_zone", "volume_id", "container"}

\* A backup of volume v; its other attributes are named after themselves.
Backup(v, attrs) ==
    [a \in attrs |-> IF a = "volume_id" THEN v ELSE "bk-" \o a]

\* Backups the service may list: of each volume, and one that carries
\* neither a volume ID nor a container.
Backups == {Backup(v, BackupAttrs) : v \in VolIds}
           \cup {Backup("", BackupAttrs \ {"volume_id", "container"})}

BackupLists == UNION {[1..n -> Backups] : n \in 0..MaxBackups}

ListBackup_parse ==
    /\ pc = "PARSE"
    /\ \E long \in {PyTrue, PyFalse} :
           Dispatch("ListBackup", [long |-> long], "volumes")

ListBackup_columns(args) ==
    IF Truthy(args.long)
      THEN <<"ID", "Name", "Description", "Status", "Size",
             "Availability Zone", "Volume ID", "Container">>
      ELSE <<"ID", "Name", "Description", "Status", "Size">>

ListBackup_column_headers(args) ==
    IF Truthy(args.long)
      THEN [ListBackup_columns(args) EXCEPT ![7] = "Volume"]
      ELSE ListBackup_columns(args)

\* Faulty variant of ListBackup_cache: the cache is filled only from a
\* listing that came through whole, and is empty after a failure.
ListBackup_cache_dropped(vs, n) ==
    IF n < Len(vs) THEN <<>>
    ELSE [id \in {vs[j].id : j \in 1..n} |->
            vs[CHOOSE j \in 1..n : vs[j].id = id]]

\* The cache after the loop has stored the first n volumes of a listing.
ListBackup_cache(vs, n) ==
    [id \in {vs[j].id : j \in 1..n} |->
       vs[CHOOSE j \in 1..n :
            /\ vs[j].id = id
            /\ \A k \in 1..n : vs[k].id = id => k <= j]]

\* Cache the volume list: the listing `vs` raises after yielding n volumes,
\* or yields them all; an exception is swallowed.
ListBackup_volumes ==
    /\ cmd = "ListBackup" /\ pc = "volumes"
    /\ \E exc \in CallOutcomes, vs \in VolumeLists :
         \E n \in 0..Len(vs) :
           /\ exc = "" => n = Len(vs)
           /\ calls' = Append(calls, Call("list", "volumes",
                                  [listing |-> vs, yielded |-> n], exc, 0))
           /\ volume_cache' = ListBackup_cache(vs, n)
    /\ pc' = "backups"
    /\ UNCHANGED <<cmd, parsed_args, status, error, output, i, result, ids,
                   LOG>>

\* _format_volume_id: the cached volume's name, else the ID as it is.
format_volume_id(cache, volume_id) ==
    IF volume_id \in DOMAIN cache THEN cache[volume_id].name ELSE volume_id

\* utils.get_item_properties with formatters={'Volume ID': _format_volume_id}:
\* one value per column, '' for an attribute the object lacks.
get_item_properties(item, columns, cache) ==
    [j \in 1..Len(columns) |->
       LET field_name == FieldName(columns[j])
           data == IF field_name \in DOMAIN item THEN item[field_name] ELSE ""
       IN  IF columns[j] = "Volume ID" THEN format_volume_id(cache, data)
           ELSE data]

ListBackup_backups ==
    /\ cmd = "ListBackup" /\ pc = "backups"
    /\ \E exc \in CallOutcomes, data \in BackupLists :
         /\ exc # "" => data = <<>>
         /\ calls' = Append(calls, Call("list", "backups", data, exc, 0))
         /\ IF exc # ""
              THEN Raise(exc, "list") /\ UNCHANGED output
              ELSE Return(<<ListBackup_column_headers(parsed_args),
                            [r \in 1..Len(data) |->
                               get_item_properties(data[r],
                                   ListBackup_columns(parsed_args),
                                   volume_cache)]>>)
    /\ UNCHANGED <<cmd, parsed_args, i, result, ids, volume_cache, LOG>>

Next ==
    \/ DeleteBackup_parse
    \/ DeleteBackup_find
    \/ DeleteBackup_delete
    \/ DeleteNetwork_parse
    \/ DeleteNetwork_find
    \/ DeleteNetwork_delete
    \/ CreateNetwork_parse
    \/ CreateNetwork_take_action
    \/ ListNetwork_parse
    \/ ListNetwork_take_action
    \/ SetNetwork_parse
    \/ SetNetwork_find
    \/ SetNetwork_update
    \/ ShowNetwork_parse
    \/ ShowNetwork_find
    \/ ShowNetwork_show
    \/ CreateBackup_parse
    \/ CreateBackup_find_volume
    \/ CreateBackup_find_snapshot
    \/ CreateBackup_create
    \/ ShowBackup_parse
    \/ ShowBackup_take_action
    \/ RestoreBackup_parse
    \/ RestoreBackup_find_backup
    \/ RestoreBackup_find_volume
    \/ RestoreBackup_restore
    \/ ListBackup_parse
    \/ ListBackup_volumes
    \/ ListBackup_backups

Spec == Init /\ [][Next]_vars

\* =================================================================
\* Properties
\* =================================================================
Done == pc = "DONE"

IsDelete == cmd \in {"DeleteBackup", "DeleteNetwork"}

\* The identifiers given to the running delete command.
Items == IF cmd = "DeleteBackup" THEN parsed_args.backups
         ELSE parsed_args.networks

IsFind(c) == c.call \in {"find", "find_resource"}

IsDeleteCall(c) == c.call \in {"delete", "delete_network"}

\* Item k was looked up; item k was handed to the delete method; item k
\* failed (its lookup or its delete call raised).
Resolved(k) == \E j \in 1..Len(calls) : IsFind(calls[j]) /\ calls[j].item = k

DeleteIssued(k) ==
    \E j \in 1..Len(calls) : IsDeleteCall(calls[j]) /\ calls[j].item = k

Deleted(k) ==
    \E j \in 1..Len(calls) :
        IsDeleteCall(calls[j]) /\ calls[j].item = k /\ calls[j].exc = ""

Failed(k) == \E j \in 1..Len(calls) : calls[j].item = k /\ calls[j].exc # ""

\* F: how many of the identifiers failed.
NumFailed == Cardinality({k \in 1..Len(Items) : Failed(k)})

\* What the delete command deletes, as the aggregate message names it.
Noun == IF cmd = "DeleteBackup" THEN "backups" ELSE "networks"

\* C1: a finished Delete command (DeleteNetwork or DeleteBackup) has
\* attempted every one of its N identifiers: each was looked up, and each
\* that resolved was handed to the delete method, whatever failed before it.
C1_DeleteAttemptsAll ==
    (IsDelete /\ Done) =>
        \A k \in 1..Len(Items) :
            /\ Resolved(k)
            /\ (Failed(k) \/ DeleteIssued(k))

\* The part of C1 that DeleteBackup keeps.
DeleteBackupAttemptsAll ==
    (cmd = "DeleteBackup" /\ Done) =>
        \A k \in 1..Len(Items) :
            /\ Resolved(k)
            /\ (Failed(k) \/ DeleteIssued(k))

\* C2: a finished Delete command over N identifiers of which F failed ends
\* in CommandError "F of N <resources> failed to delete." if F > 0 and in
\* success with no error if F = 0; deleting b1 b2 b3 where only b2 does not
\* resolve deletes b1 and b3 and raises "1 of 3 backups failed to delete.".
C2_AggregateError ==
    (IsDelete /\ Done) =>
        /\ IF NumFailed > 0
             THEN /\ status = "failure"
                  /\ error = [type |-> "CommandError",
                              msg |-> ToString(NumFailed) \o " of "
                                      \o ToString(Len(Items)) \o " " \o Noun
                                      \o " failed to delete."]
             ELSE status = "success" /\ error = NoError
        /\ (/\ cmd = "DeleteBackup"
            /\ Items = <<"b1", "b2", "b3">>
            /\ \A k \in 1..3 : Failed(k) <=> k = 2)
           => /\ Deleted(1) /\ Deleted(3) /\ ~DeleteIssued(2)
              /\ error.msg = "1 of 3 backups failed to delete."

\* The part of C2 that DeleteBackup keeps.
DeleteBackupAggregateError ==
    (cmd = "DeleteBackup" /\ Done) =>
        IF NumFailed > 0
          THEN /\ status = "failure"
               /\ error = [type |-> "CommandError",
                           msg |-> ToString(NumFailed) \o " of "
                                   \o ToString(Len(Items))
                                   \o " backups failed to delete."]
               /\ result = NumFailed
          ELSE status = "success" /\ error = NoError

\* None of --name, --enable/--disable, --share/--no-share was given.
NothingSet ==
    /\ parsed_args.name = PyNone
    /\ parsed_args.admin_state = PyNone
    /\ parsed_args.shared = PyNone

\* C3: a Set command given none of the settable fields makes no call at
\* all, neither a resolver lookup nor an update, and ends in CommandError
\* "Nothing specified to be set", whether or not the identifier resolves.
C3_SetNothingNoCall ==
    (cmd = "SetNetwork" /\ NothingSet) =>
        /\ calls = <<>>
        /\ Done => /\ status = "failure"
                   /\ error = [type |-> "CommandError",
                               msg |-> "Nothing specified to be set"]

\* The part of C3 that SetNetwork keeps: no update call is ever issued.
SetNothingNoUpdate ==
    (cmd = "SetNetwork" /\ NothingSet) =>
        \A j \in 1..Len(calls) : calls[j].call # "update_network"

\* C4: the request handed to a create method holds the required keys and
\* a key for an optional flag only if the user gave that flag: shared for
\* a network; container, name, description, snapshot_id for a backup.
C4_CreateBodyExactKeys ==
    \A j \in 1..Len(calls) :
        /\ calls[j].call = "create_network" =>
              DOMAIN calls[j].arg.network =
                  {"name", "admin_state_up"}
                  \cup (IF parsed_args.shared # PyNone
                          THEN {"shared"} ELSE {})
        /\ (calls[j].call = "create" /\ calls[j].coll = "backups") =>
              LET keys == DOMAIN calls[j].arg.kwargs
              IN  /\ "container" \in keys => parsed_args.container # PyNone
                  /\ "name" \in keys => parsed_args.name # PyNone
                  /\ "description" \in keys =>
                         parsed_args.description # PyNone
                  /\ "snapshot_id" \in keys => parsed_args.snapshot # PyNone

\* The part of C4 that CreateNetwork keeps.
CreateNetworkBodyExactKeys ==
    \A j \in 1..Len(calls) :
        calls[j].call = "create_network" =>
            DOMAIN calls[j].arg.network =
                {"name", "admin_state_up"}
                \cup (IF parsed_args.shared # PyNone THEN {"shared"} ELSE {})

\* The keys of a (keys, values) output.
OutputKeys == IF output = <<>> THEN {}
              ELSE {output[1][j] : j \in 1..Len(output[1])}

\* C5: the (keys, values) output of ShowNetwork, CreateNetwork, ShowBackup
\* and CreateBackup never holds a links key, whatever record was returned.
C5_NoLinksKey ==
    (/\ cmd \in {"ShowNetwork", "CreateNetwork", "ShowBackup", "CreateBackup"}
     /\ Done /\ status = "success")
    => "links" \notin OutputKeys

\* The part of C5 that the backup commands keep.
BackupNoLinksKey ==
    (cmd \in {"ShowBackup", "CreateBackup"} /\ Done /\ status = "success")
    => "links" \notin OutputKeys

\* Every row of a (columns, rows) output has one value per column.
RowsAligned ==
    \A r \in 1..Len(output[2]) :
        DOMAIN output[2][r] = 1..Len(output[1])

\* C6: the columns a List command returns depend on --long alone: without
\* it a fixed list in a fixed order, with it a fixed superset of that list
\* with "Volume ID" shown as "Volume"; every row has one value per column.
C6_ListColumnsFixed ==
    (cmd \in {"ListBackup", "ListNetwork"} /\ Done /\ status = "success") =>
        /\ RowsAligned
        /\ cmd = "ListBackup" =>
             output[1] = IF parsed_args.long = PyTrue
                           THEN <<"ID", "Name", "Description", "Status",
                                  "Size", "Availability Zone", "Volume",
                                  "Container">>
                           ELSE <<"ID", "Name", "Description", "Status",
                                  "Size">>
        /\ cmd = "ListNetwork" =>
             IF parsed_args.long = PyTrue
               THEN \A x \in {"id", "name", "subnets"} :
                        \E j \in 1..Len(output[1]) : output[1][j] = x
               ELSE output[1] = <<"id", "name", "subnets">>

\* The part of C6 that ListBackup keeps, and the alignment of every row.
ListBackupColumnsFixed ==
    (cmd \in {"ListBackup", "ListNetwork"} /\ Done /\ status = "success") =>
        /\ RowsAligned
        /\ cmd = "ListBackup" =>
             output[1] = IF parsed_args.long = PyTrue
                           THEN <<"ID", "Name", "Description", "Status",
                                  "Size", "Availability Zone", "Volume",
                                  "Container">>
                           ELSE <<"ID", "Name", "Description", "Status",
                                  "Size">>

\* The positions of the update calls made so far.
Updates == {j \in 1..Len(calls) : calls[j].call = "update_network"}

\* C7: a Set command given at least one field, whose identifier resolves,
\* issues exactly one update call, on the resolved ID; the body holds name,
\* admin_state_up, shared exactly for the fields the user gave, with the
\* value given: False for --disable and --no-share, not a missing key.
C7_SetNetworkUpdate ==
    cmd = "SetNetwork" =>
        /\ Cardinality(Updates) <= 1
        /\ \A j \in Updates :
              LET body == calls[j].arg.body.network
              IN  /\ calls[j].arg.id = IdOf(parsed_args.identifier)
                  /\ "name" \in DOMAIN body <=> parsed_args.name # PyNone
                  /\ "admin_state_up" \in DOMAIN body
                         <=> parsed_args.admin_state # PyNone
                  /\ "shared" \in DOMAIN body <=> parsed_args.shared # PyNone
                  /\ \A k \in DOMAIN body :
                         body[k] = CASE k = "name" -> parsed_args.name
                                     [] k = "admin_state_up" ->
                                            parsed_args.admin_state
                                     [] k = "shared" -> parsed_args.shared
        /\ (Done /\ ~NothingSet /\ calls[1].exc = "") =>
               Cardinality(Updates) = 1

\* C7's case: --disable alone on a network that resolves, update issued
\* with admin_state_up False and nothing else.
C7_Witness ==
    /\ cmd = "SetNetwork" /\ Done /\ status = "success"
    /\ parsed_args.admin_state = PyFalse
    /\ parsed_args.name = PyNone /\ parsed_args.shared = PyNone
    /\ Len(calls) = 2
    /\ calls[2].arg.body.network = [k \in {"admin_state_up"} |-> PyFalse]

\* C8: a Delete command works through its identifiers in the order given,
\* one at a time: every lookup is for the identifier right after the one
\* the previous call was for, and comes only after that one's failed lookup
\* or its delete call; every delete call comes right after the successful
\* lookup of the same identifier and is made on the ID that lookup gave.
C8_DeleteSequential ==
    IsDelete =>
        \A j \in 1..Len(calls) :
            LET c == calls[j]
            IN  /\ c.item \in 1..Len(Items)
                /\ IsFind(c) \/ IsDeleteCall(c)
                /\ IsFind(c) =>
                     /\ c.arg = Items[c.item]
                     /\ j = 1 => c.item = 1
                     /\ j > 1 =>
                          /\ c.item = calls[j - 1].item + 1
                          /\ IsFind(calls[j - 1]) => calls[j - 1].exc # ""
                /\ IsDeleteCall(c) =>
                     /\ j > 1
                     /\ IsFind(calls[j - 1])
                     /\ calls[j - 1].exc = ""
                     /\ calls[j - 1].item = c.item
                     /\ c.arg = IdOf(Items[c.item])

\* C8's case: a finished delete of three identifiers, the second of which
\* did not resolve, the other two deleted.
C8_Witness ==
    /\ cmd = "DeleteBackup" /\ Done
    /\ Len(Items) = 3
    /\ Deleted(1) /\ ~Resolved(4) /\ Failed(2) /\ ~DeleteIssued(2)
    /\ Deleted(3)

SingleItem ==
    {"ShowNetwork", "SetNetwork", "ShowBackup", "CreateBackup",
     "RestoreBackup"}

\* C9: in ShowNetwork, SetNetwork, ShowBackup, CreateBackup, RestoreBackup
\* a lookup that fails is the last call made: the command has ended with
\* that error; and no method is called twice on the same collection.
C9_FailFast ==
    cmd \in SingleItem =>
        /\ \A j \in 1..Len(calls) :
              (IsFind(calls[j]) /\ calls[j].exc # "") =>
                  /\ j = Len(calls)
                  /\ Done /\ status = "failure"
                  /\ error.type = calls[j].exc
        /\ \A j, k \in 1..Len(calls) :
              (calls[j].call = calls[k].call /\ calls[j].coll = calls[k].coll)
                  => j = k

\* C9's case: CreateBackup whose volume resolves and whose snapshot does
\* not; the command has ended without a create call.
C9_Witness ==
    /\ cmd = "CreateBackup" /\ Done /\ status = "failure"
    /\ Len(calls) = 2
    /\ calls[1].exc = "" /\ calls[2].coll = "volume_snapshots"
    /\ calls[2].exc = "NotFound"
    /\ error.type = "NotFound"

\* The volumes the loop stored before the listing ended or raised.
Collected ==
    {calls[1].arg.listing[j] : j \in 1..calls[1].arg.yielded}

\* The volume ID a listed backup carries ('' when it has none).
RawVolumeId(b) == IF "volume_id" \in DOMAIN b THEN b["volume_id"] ELSE ""

\* C10: in ListBackup a failure of the volume listing, wherever it strikes,
\* does not end the command; the backups are listed, and with --long the
\* Volume column shows the name of a volume collected before the failure
\* and the raw volume ID of any other; a failure of the backups listing
\* ends the command with that error.
C10_ListBackupVolumeFailure ==
    cmd = "ListBackup" =>
        /\ Len(calls) = 1 =>
              /\ calls[1].coll = "volumes"
              /\ status = "running" /\ pc = "backups"
        /\ Done =>
              /\ Len(calls) = 2
              /\ calls[2].coll = "backups"
              /\ IF calls[2].exc # ""
                   THEN status = "failure" /\ error.type = calls[2].exc
                   ELSE /\ status = "success"
                        /\ Len(output[2]) = Len(calls[2].arg)
                        /\ parsed_args.long = PyTrue =>
                             \A r \in 1..Len(output[2]) :
                                LET raw == RawVolumeId(calls[2].arg[r])
                                IN  output[2][r][7] =
                                      IF \E v \in Collected : v.id = raw
                                        THEN (CHOOSE v \in Collected :
                                                  v.id = raw).name
                                        ELSE raw

\* C10's case: --long, the volume listing raised after yielding one of two
\* volumes, and two backups are listed: one of the collected volume, shown
\* by name, and one of the volume that was not reached, shown by ID.
C10_Witness ==
    /\ cmd = "ListBackup" /\ Done /\ status = "success"
    /\ parsed_args.long = PyTrue
    /\ calls[1].exc # ""
    /\ calls[1].arg.yielded = 1 /\ Len(calls[1].arg.listing) = 2
    /\ calls[1].arg.listing[1].id = "v1" /\ calls[1].arg.listing[2].id = "v2"
    /\ Len(output[2]) = 2
    /\ output[2][1][7] = "name-of-v1"
    /\ output[2][2][7] = "v2"
====
